---- MODULE Spec2Model ----
(***************************************************************************)
(* A model of registry-rs' RegKey (src/src/key.rs): the owning wrapper of  *)
(* a native registry handle, its path-relative operations, the error       *)
(* mapping they share, and the store they talk to.                         *)
(*                                                                         *)
(* The registry itself (RegOpenKeyExW, RegCreateKeyExW, RegDeleteKeyW,     *)
(* RegDeleteTreeW, RegCloseKey, RegOpenCurrentUser) is the environment: it *)
(* is modelled as a tree of keys and a table of native handles, each       *)
(* primitive being an operator from a world to the set of its outcomes.    *)
(* Rust's ownership rules are the guards of the caller's actions: an       *)
(* operation on a RegKey needs the RegKey alive, and a RegKey borrowed by  *)
(* an iterator can be neither dropped nor moved into delete_self.          *)
(***************************************************************************)
EXTENDS Integers, Sequences, FiniteSets, TLC

(***************************************************************************)
(* Bounds of the model.                                                    *)
(***************************************************************************)
MaxKeys == 2        \* RegKey objects the caller holds at once
MaxStoreKeys == 2   \* keys in the store besides the hive root
MaxIters == 1       \* iterators alive at once

Slots == 1..MaxKeys
Handles == 1..MaxKeys   \* the native handle values the store hands out
IterIds == 1..MaxIters

(***************************************************************************)
(* Text.  A Rust str/String is a sequence of Unicode scalar values, a      *)
(* U16CString a sequence of UTF-16 code units with no NUL in it.           *)
(***************************************************************************)
NUL == 0
BACKSLASH == 92
LETTER_A == 97
SUR_HIGH_MIN == 55296       \* 0xD800
SUR_LOW_MIN == 56320        \* 0xDC00
SUR_LOW_MAX == 57343        \* 0xDFFF
BMP_LIMIT == 65536          \* 0x10000, the first supplementary scalar value
REPLACEMENT == 65533        \* U+FFFD

IsHigh(u) == u >= SUR_HIGH_MIN /\ u < SUR_LOW_MIN
IsLow(u) == u >= SUR_LOW_MIN /\ u <= SUR_LOW_MAX
IsSurrogate(u) == IsHigh(u) \/ IsLow(u)

\* str -> UTF-16 (str::encode_utf16, as U16CString::from_str does).
RECURSIVE encode_utf16(_)
encode_utf16(chars) ==
    IF chars = <<>> THEN <<>>
    ELSE LET c == Head(chars) IN
         (IF c < BMP_LIMIT
            THEN <<c>>
            ELSE << SUR_HIGH_MIN + ((c - BMP_LIMIT) \div 1024),
                    SUR_LOW_MIN + ((c - BMP_LIMIT) % 1024) >>)
         \o encode_utf16(Tail(chars))

\* UTF-16 -> String, an unpaired surrogate becoming U+FFFD
\* (U16CStr::to_string_lossy, String::from_utf16_lossy).
RECURSIVE to_string_lossy(_)
to_string_lossy(units) ==
    IF units = <<>> THEN <<>>
    ELSE LET u == Head(units) IN
         IF IsHigh(u) /\ Len(units) >= 2 /\ IsLow(units[2])
           THEN << BMP_LIMIT + (u - SUR_HIGH_MIN) * 1024 + (units[2] - SUR_LOW_MIN) >>
                \o to_string_lossy(Tail(Tail(units)))
           ELSE << IF IsSurrogate(u) THEN REPLACEMENT ELSE u >>
                \o to_string_lossy(Tail(units))

\* Whether String::from_utf16 accepts the units: every surrogate is paired.
RECURSIVE WellFormed(_)
WellFormed(units) ==
    IF units = <<>> THEN TRUE
    ELSE LET u == Head(units) IN
         IF IsHigh(u) /\ Len(units) >= 2 /\ IsLow(units[2])
           THEN WellFormed(Tail(Tail(units)))
           ELSE ~IsSurrogate(u) /\ WellFormed(Tail(units))

\* U16CStr::to_string: Ok(String) or Err(FromUtf16Error).
to_string(units) ==
    [ok |-> WellFormed(units),
     val |-> IF WellFormed(units) THEN to_string_lossy(units) ELSE <<>>]

\* The string literals of key.rs.
LIT_UNKNOWN == <<60, 117, 110, 107, 110, 111, 119, 110, 62>>            \* "<unknown>"
LIT_CURRENT_USER_ERR ==
    <<60, 99, 117, 114, 114, 101, 110, 116, 32, 117, 115, 101, 114, 62>> \* "<current user>"
LIT_CURRENT_USER ==
    <<60, 67, 117, 114, 114, 101, 110, 116, 32, 85, 115, 101, 114, 62>>  \* "<Current User>"

(***************************************************************************)
(* What a caller passes as a path: a str (TryFrom<&str>, which fails on a  *)
(* NUL) or a U16CString (the identity conversion, whose error type is      *)
(* Infallible).                                                            *)
(***************************************************************************)
StrInputs ==
    { <<>>,
      <<LETTER_A>>,
      <<LETTER_A, BACKSLASH, LETTER_A>>,
      <<BACKSLASH, LETTER_A>>,
      <<BMP_LIMIT>>,
      <<LETTER_A, NUL, LETTER_A>>,
      <<LETTER_A, NUL>> }
WideInputs ==
    { <<SUR_HIGH_MIN>>, <<SUR_HIGH_MIN, SUR_LOW_MIN>> }

Inputs ==
    {[form |-> "str", s |-> c] : c \in StrInputs}
    \cup {[form |-> "wide", s |-> u] : u \in WideInputs}
NoArg == [form |-> "none", s |-> <<>>]

FirstNul(units) ==
    IF \E i \in 1..Len(units) : units[i] = NUL
      THEN CHOOSE i \in 1..Len(units) :
               units[i] = NUL /\ \A j \in 1..(i - 1) : units[j] # NUL
      ELSE 0

\* A conversion that cuts the string at its first NUL instead of failing.
try_into_truncating(inp) ==
    LET units == IF inp.form = "str" THEN encode_utf16(inp.s) ELSE inp.s IN
    [ok |-> TRUE,
     val |-> IF FirstNul(units) # 0 THEN SubSeq(units, 1, FirstNul(units) - 1) ELSE units,
     pos |-> 0]

\* path.try_into(): Ok(U16CString) or Err(NulError(position)).
try_into(inp) ==
    LET units == IF inp.form = "str" THEN encode_utf16(inp.s) ELSE inp.s IN
    IF inp.form = "str" /\ FirstNul(units) # 0
      THEN [ok |-> FALSE, val |-> <<>>, pos |-> FirstNul(units)]
      ELSE [ok |-> TRUE, val |-> units, pos |-> 0]

(***************************************************************************)
(* Security: a set of access rights, composed by union (Read | Write).     *)
(***************************************************************************)
SecValues == { {"Read"}, {"Read", "Write"} }

(***************************************************************************)
(* The store: a tree of keys, each named by its path from the hive root (a *)
(* sequence of key names, a key name a sequence of code units); the keys   *)
(* that hold the value; the table of native handles.                       *)
(***************************************************************************)
HiveRoot == <<>>

VARIABLES
    store,      \* the keys that exist, the hive root among them
    vals,       \* the keys under which the value is set
    hkeys,      \* the native handle table
    regkeys,    \* the RegKey objects of the caller
    iters,      \* the iterators of the caller
    ret,        \* what the last operation was given and what it returned
    calls       \* the store primitives the last operation called, in order

vars == <<store, vals, hkeys, regkeys, iters, ret, calls>>

ClosedHandle == [open |-> FALSE, node |-> <<>>, deleted |-> FALSE, sam |-> {}]
NoKey == [live |-> FALSE, handle |-> 0, path |-> <<>>]
NoIter == [live |-> FALSE, kind |-> "none", regkey |-> 0, tied |-> FALSE,
           index |-> 0, exhausted |-> FALSE]

World == [store |-> store, vals |-> vals, hkeys |-> hkeys]

\* Status codes of the store (winerror.h).
ERROR_SUCCESS == 0
ERROR_FILE_NOT_FOUND == 2
ERROR_PATH_NOT_FOUND == 3
ERROR_ACCESS_DENIED == 5
ERROR_INVALID_HANDLE == 6
ERROR_NOT_ENOUGH_MEMORY == 8
ERROR_DIR_NOT_EMPTY == 145
ERROR_BAD_PATHNAME == 161
ERROR_NO_MORE_ITEMS == 259
ERROR_KEY_DELETED == 1018

\* A relative path's key names: the path split at every backslash.
RECURSIVE SplitAcc(_, _, _)
SplitAcc(units, cur, acc) ==
    IF units = <<>> THEN Append(acc, cur)
    ELSE IF Head(units) = BACKSLASH
           THEN SplitAcc(Tail(units), <<>>, Append(acc, cur))
           ELSE SplitAcc(Tail(units), Append(cur, Head(units)), acc)

Split(units) == IF units = <<>> THEN <<>> ELSE SplitAcc(units, <<>>, <<>>)

Malformed(units) == \E i \in 1..Len(Split(units)) : Split(units)[i] = <<>>

IsPrefix(p, n) == Len(p) <= Len(n) /\ SubSeq(n, 1, Len(p)) = p
Prefixes(n) == {SubSeq(n, 1, i) : i \in 0..Len(n)}
Subtree(st, n) == {m \in st : IsPrefix(n, m)}
Children(st, n) == {m \in st : Len(m) = Len(n) + 1 /\ IsPrefix(n, m)}

FreeHandles(w) == {h \in Handles : ~w.hkeys[h].open}

\* The handles of removed keys stay open and answer ERROR_KEY_DELETED.
MarkDeleted(hk, removed) ==
    [h \in Handles |->
        IF hk[h].open /\ ~hk[h].deleted /\ hk[h].node \in removed
          THEN [hk[h] EXCEPT !.deleted = TRUE, !.node = <<>>]
          ELSE hk[h]]

Call(prim, h, w, status) ==
    [prim |-> prim, handle |-> h,
     valid |-> h \in Handles /\ w.hkeys[h].open, status |-> status]

CallNoHandle(prim, status) ==
    [prim |-> prim, handle |-> 0, valid |-> TRUE, status |-> status]

Outcome(status, h, w, call) == [status |-> status, handle |-> h, w |-> w, call |-> call]

\* What every path-relative primitive answers before it looks at the target:
\* 0 when the request can go on.
Precheck(w, base, units) ==
    IF ~(base \in Handles /\ w.hkeys[base].open) THEN ERROR_INVALID_HANDLE
    ELSE IF w.hkeys[base].deleted THEN ERROR_KEY_DELETED
    ELSE IF Malformed(units) THEN ERROR_BAD_PATHNAME
    ELSE ERROR_SUCCESS

Target(w, base, units) == w.hkeys[base].node \o Split(units)

Grant(w, h, node, sam) ==
    [w EXCEPT !.hkeys[h] = [open |-> TRUE, node |-> node, deleted |-> FALSE, sam |-> sam]]

RegOpenKeyExW(w, base, units, sam) ==
    LET pre == Precheck(w, base, units) IN
    IF pre # ERROR_SUCCESS
      THEN {Outcome(pre, 0, w, Call("RegOpenKeyExW", base, w, pre))}
    ELSE IF Target(w, base, units) \notin w.store
      THEN {Outcome(ERROR_FILE_NOT_FOUND, 0, w,
                    Call("RegOpenKeyExW", base, w, ERROR_FILE_NOT_FOUND))}
    ELSE {Outcome(ERROR_SUCCESS, h, Grant(w, h, Target(w, base, units), sam),
                  Call("RegOpenKeyExW", base, w, ERROR_SUCCESS)) : h \in FreeHandles(w)}

RegCreateKeyExW(w, base, units, sam) ==
    LET pre == Precheck(w, base, units)
        t == Target(w, base, units) IN
    IF pre # ERROR_SUCCESS
      THEN {Outcome(pre, 0, w, Call("RegCreateKeyExW", base, w, pre))}
    ELSE IF t \notin w.store /\ "Write" \notin w.hkeys[base].sam
      THEN {Outcome(ERROR_ACCESS_DENIED, 0, w,
                    Call("RegCreateKeyExW", base, w, ERROR_ACCESS_DENIED))}
    ELSE IF Cardinality(w.store \cup Prefixes(t)) > MaxStoreKeys + 1
      THEN {}
    ELSE {Outcome(ERROR_SUCCESS, h,
                  Grant([w EXCEPT !.store = w.store \cup Prefixes(t)], h, t, sam),
                  Call("RegCreateKeyExW", base, w, ERROR_SUCCESS)) : h \in FreeHandles(w)}

\* The status of deleting a key that has subkeys.
NotEmptyCodes == {ERROR_ACCESS_DENIED, ERROR_DIR_NOT_EMPTY}

Remove(w, removed) ==
    [w EXCEPT !.store = w.store \ removed,
              !.vals = w.vals \ removed,
              !.hkeys = MarkDeleted(w.hkeys, removed)]

RegDeleteKeyW(w, base, units) ==
    LET pre == Precheck(w, base, units)
        t == Target(w, base, units)
        fail(c) == Outcome(c, 0, w, Call("RegDeleteKeyW", base, w, c)) IN
    IF pre # ERROR_SUCCESS THEN {fail(pre)}
    ELSE IF t \notin w.store THEN {fail(ERROR_FILE_NOT_FOUND)}
    ELSE IF t = HiveRoot THEN {fail(ERROR_ACCESS_DENIED)}
    ELSE IF Children(w.store, t) # {} THEN {fail(c) : c \in NotEmptyCodes}
    ELSE {Outcome(ERROR_SUCCESS, 0, Remove(w, {t}),
                  Call("RegDeleteKeyW", base, w, ERROR_SUCCESS))}

\* With an empty path the subkeys and the values of the base key are deleted;
\* whether the base key goes too is left to the store.
RegDeleteTreeW(w, base, units) ==
    LET pre == Precheck(w, base, units)
        t == Target(w, base, units)
        fail(c) == Outcome(c, 0, w, Call("RegDeleteTreeW", base, w, c))
        done(removed) ==
            Outcome(ERROR_SUCCESS, 0,
                    [Remove(w, removed) EXCEPT !.vals = w.vals \ (removed \cup {t})],
                    Call("RegDeleteTreeW", base, w, ERROR_SUCCESS)) IN
    IF pre # ERROR_SUCCESS THEN {fail(pre)}
    ELSE IF t \notin w.store THEN {fail(ERROR_FILE_NOT_FOUND)}
    ELSE IF units = <<>>
      THEN {done(Subtree(w.store, t) \ {t})}
           \cup (IF t = HiveRoot THEN {} ELSE {done(Subtree(w.store, t))})
    ELSE {done(Subtree(w.store, t))}

RegCloseKey(w, h) ==
    IF h \in Handles /\ w.hkeys[h].open
      THEN {Outcome(ERROR_SUCCESS, 0, [w EXCEPT !.hkeys[h] = ClosedHandle],
                    Call("RegCloseKey", h, w, ERROR_SUCCESS))}
      ELSE {Outcome(ERROR_INVALID_HANDLE, 0, w,
                    Call("RegCloseKey", h, w, ERROR_INVALID_HANDLE))}

\* The children of a key in the order the store enumerates them.
Enumerated(S) ==
    CHOOSE f \in [1..Cardinality(S) -> S] : \A i, j \in 1..Cardinality(S) : f[i] = f[j] => i = j

\* The name of the value every key can hold.
VALUE_NAME == <<118>>       \* "v"

HandleCheck(w, h) ==
    IF ~(h \in Handles /\ w.hkeys[h].open) THEN ERROR_INVALID_HANDLE
    ELSE IF w.hkeys[h].deleted THEN ERROR_KEY_DELETED
    ELSE ERROR_SUCCESS

\* enumerate-child-key(base-handle, index) -> name | "no-more" | status
RegEnumKeyExW(w, h, index) ==
    LET pre == HandleCheck(w, h)
        kids == Children(w.store, w.hkeys[h].node)
        answer(c, name) == [status |-> c, name |-> name, call |-> Call("RegEnumKeyExW", h, w, c)] IN
    IF pre # ERROR_SUCCESS THEN {answer(pre, <<>>)}
    ELSE IF index >= Cardinality(kids) THEN {answer(ERROR_NO_MORE_ITEMS, <<>>)}
    ELSE LET child == Enumerated(kids)[index + 1] IN
         {answer(ERROR_SUCCESS, child[Len(child)])}

\* enumerate-value(base-handle, index) -> (name, type, payload) | "no-more" | status
RegEnumValueW(w, h, index) ==
    LET pre == HandleCheck(w, h)
        answer(c, name) == [status |-> c, name |-> name, call |-> Call("RegEnumValueW", h, w, c)] IN
    IF pre # ERROR_SUCCESS THEN {answer(pre, <<>>)}
    ELSE IF index >= 1 \/ w.hkeys[h].node \notin w.vals
      THEN {answer(ERROR_NO_MORE_ITEMS, <<>>)}
    ELSE {answer(ERROR_SUCCESS, VALUE_NAME)}

\* query-value(base-handle, name) -> (type, payload) | status
RegQueryValueExW(w, h, name) ==
    LET pre == HandleCheck(w, h)
        answer(c) == Outcome(c, 0, w, Call("RegQueryValueExW", h, w, c)) IN
    IF pre # ERROR_SUCCESS THEN {answer(pre)}
    ELSE IF name # VALUE_NAME \/ w.hkeys[h].node \notin w.vals
      THEN {answer(ERROR_FILE_NOT_FOUND)}
    ELSE {answer(ERROR_SUCCESS)}

\* set-value(base-handle, name, type, payload) -> status
RegSetValueExW(w, h, name) ==
    LET pre == HandleCheck(w, h)
        answer(c, w2) == Outcome(c, 0, w2, Call("RegSetValueExW", h, w, c)) IN
    IF pre # ERROR_SUCCESS THEN {answer(pre, w)}
    ELSE IF "Write" \notin w.hkeys[h].sam THEN {answer(ERROR_ACCESS_DENIED, w)}
    ELSE IF name # VALUE_NAME THEN {}
    ELSE {answer(ERROR_SUCCESS, [w EXCEPT !.vals = w.vals \cup {w.hkeys[h].node}])}

\* delete-value(base-handle, name) -> status
RegDeleteValueW(w, h, name) ==
    LET pre == HandleCheck(w, h)
        answer(c, w2) == Outcome(c, 0, w2, Call("RegDeleteValueW", h, w, c)) IN
    IF pre # ERROR_SUCCESS THEN {answer(pre, w)}
    ELSE IF name # VALUE_NAME \/ w.hkeys[h].node \notin w.vals
      THEN {answer(ERROR_FILE_NOT_FOUND, w)}
    ELSE IF "Write" \notin w.hkeys[h].sam THEN {answer(ERROR_ACCESS_DENIED, w)}
    ELSE {answer(ERROR_SUCCESS, [w EXCEPT !.vals = w.vals \ {w.hkeys[h].node}])}

\* The statuses with which the current user's root cannot be opened.
OpenUserFailures == {ERROR_FILE_NOT_FOUND, ERROR_ACCESS_DENIED, ERROR_NOT_ENOUGH_MEMORY}

RegOpenCurrentUser(w, sam) ==
    {Outcome(ERROR_SUCCESS, h, Grant(w, h, HiveRoot, sam),
             CallNoHandle("RegOpenCurrentUser", ERROR_SUCCESS)) : h \in FreeHandles(w)}
    \cup {Outcome(c, 0, w, CallNoHandle("RegOpenCurrentUser", c)) : c \in OpenUserFailures}

(***************************************************************************)
(* key.rs.  A function of the crate is an operator from the world it is    *)
(* called in to the set of its results: the world it leaves, the store     *)
(* primitives it called, and what it returns.                              *)
(***************************************************************************)
NoError == [kind |-> "Ok", path |-> <<>>, code |-> 0, pos |-> 0]
Err(kind, path, code) == [kind |-> kind, path |-> path, code |-> code, pos |-> 0]
InvalidNul(pos) == [kind |-> "InvalidNul", path |-> <<>>, code |-> 0, pos |-> pos]

\* std::io::Error::from_raw_os_error(code).kind(), on Windows.
io_error_kind(code) ==
    IF code \in {ERROR_FILE_NOT_FOUND, ERROR_PATH_NOT_FOUND} THEN "NotFound"
    ELSE IF code = ERROR_ACCESS_DENIED THEN "PermissionDenied"
    ELSE "Other"

\* path.to_string().unwrap_or_else(|_| "<unknown>".into())
error_path(path) == IF to_string(path).ok THEN to_string(path).val ELSE LIT_UNKNOWN

HkeyResult(o, err) ==
    [w |-> o.w, call |-> o.call, handle |-> o.handle, err |-> err]

\* An open_hkey that builds its io::Error from the kind alone, without the
\* status.
open_hkey_kind_only(w, base, path, sec) ==
    { HkeyResult(o,
        IF o.status = 0 THEN NoError
        ELSE IF io_error_kind(o.status) = "NotFound"
          THEN Err("NotFound", error_path(path), 0)
        ELSE IF io_error_kind(o.status) = "PermissionDenied"
          THEN Err("PermissionDenied", error_path(path), 0)
        ELSE Err("Unknown", error_path(path), 0))
      : o \in RegOpenKeyExW(w, base, path, sec) }

\* An open_hkey that returns the handle it was given instead of the new one.
open_hkey_returns_base(w, base, path, sec) ==
    { [w |-> o.w, call |-> o.call, handle |-> base,
       err |-> IF o.status = 0 THEN NoError
               ELSE IF io_error_kind(o.status) = "NotFound"
                 THEN Err("NotFound", error_path(path), o.status)
               ELSE IF io_error_kind(o.status) = "PermissionDenied"
                 THEN Err("PermissionDenied", error_path(path), o.status)
               ELSE Err("Unknown", error_path(path), o.status)]
      : o \in RegOpenKeyExW(w, base, path, sec) }

open_hkey(w, base, path, sec) ==
    { HkeyResult(o,
        IF o.status = 0 THEN NoError
        ELSE IF io_error_kind(o.status) = "NotFound"
          THEN Err("NotFound", error_path(path), o.status)
        ELSE IF io_error_kind(o.status) = "PermissionDenied"
          THEN Err("PermissionDenied", error_path(path), o.status)
        ELSE Err("Unknown", error_path(path), o.status))
      : o \in RegOpenKeyExW(w, base, path, sec) }

\* A delete_hkey that asks for the whole tree whatever is_recursive says.
delete_hkey_always_tree(w, base, path, is_recursive) ==
    { HkeyResult(o,
        IF o.status = 0 THEN NoError
        ELSE IF io_error_kind(o.status) = "NotFound"
          THEN Err("NotFound", error_path(path), o.status)
        ELSE IF io_error_kind(o.status) = "PermissionDenied"
          THEN Err("PermissionDenied", error_path(path), o.status)
        ELSE Err("Unknown", error_path(path), o.status))
      : o \in RegDeleteTreeW(w, base, path) }

\* A delete_hkey that asks for the one key whatever is_recursive says.
delete_hkey_never_tree(w, base, path, is_recursive) ==
    { HkeyResult(o,
        IF o.status = 0 THEN NoError
        ELSE IF io_error_kind(o.status) = "NotFound"
          THEN Err("NotFound", error_path(path), o.status)
        ELSE IF io_error_kind(o.status) = "PermissionDenied"
          THEN Err("PermissionDenied", error_path(path), o.status)
        ELSE Err("Unknown", error_path(path), o.status))
      : o \in RegDeleteKeyW(w, base, path) }

delete_hkey(w, base, path, is_recursive) ==
    { HkeyResult(o,
        IF o.status = 0 THEN NoError
        ELSE IF io_error_kind(o.status) = "NotFound"
          THEN Err("NotFound", error_path(path), o.status)
        ELSE IF io_error_kind(o.status) = "PermissionDenied"
          THEN Err("PermissionDenied", error_path(path), o.status)
        ELSE Err("Unknown", error_path(path), o.status))
      : o \in IF is_recursive THEN RegDeleteTreeW(w, base, path)
                              ELSE RegDeleteKeyW(w, base, path) }

\* A create_hkey whose match has no PermissionDenied arm.
create_hkey_no_permission_arm(w, base, path, sec) ==
    { HkeyResult(o,
        IF o.status = 0 THEN NoError
        ELSE IF io_error_kind(o.status) = "NotFound"
          THEN Err("NotFound", error_path(path), o.status)
        ELSE Err("Unknown", error_path(path), o.status))
      : o \in RegCreateKeyExW(w, base, path, sec) }

create_hkey(w, base, path, sec) ==
    { HkeyResult(o,
        IF o.status = 0 THEN NoError
        ELSE IF io_error_kind(o.status) = "NotFound"
          THEN Err("NotFound", error_path(path), o.status)
        ELSE IF io_error_kind(o.status) = "PermissionDenied"
          THEN Err("PermissionDenied", error_path(path), o.status)
        ELSE Err("Unknown", error_path(path), o.status))
      : o \in RegCreateKeyExW(w, base, path, sec) }

\* A Display that writes every code unit as a character of its own.
Display_per_unit(self) == self.path

\* impl Display for RegKey
Display(self) == to_string_lossy(self.path)

\* A Drop that does not close the handle.
drop_leak(w, self) == { [w |-> w, calls |-> <<>>] }

\* impl Drop for RegKey: the status of RegCloseKey is not looked at.
drop(w, self) ==
    { [w |-> o.w, calls |-> <<o.call>>] : o \in RegCloseKey(w, self.handle) }

RegKey(handle, path) == [live |-> TRUE, handle |-> handle, path |-> path]

\* What a method returns: key is the RegKey of an Ok(RegKey), NoKey otherwise.
Result(w, cs, err, key) == [w |-> w, calls |-> cs, err |-> err, key |-> key]

RegKey_open(w, self, inp, sec) ==
    LET path == try_into(inp) IN
    IF ~path.ok THEN {Result(w, <<>>, InvalidNul(path.pos), NoKey)}
    ELSE { Result(r.w, <<r.call>>, r.err,
                  IF r.err.kind = "Ok" THEN RegKey(r.handle, path.val) ELSE NoKey)
           : r \in open_hkey(w, self.handle, path.val, sec) }

RegKey_create(w, self, inp, sec) ==
    LET path == try_into(inp) IN
    IF ~path.ok THEN {Result(w, <<>>, InvalidNul(path.pos), NoKey)}
    ELSE { Result(r.w, <<r.call>>, r.err,
                  IF r.err.kind = "Ok" THEN RegKey(r.handle, path.val) ELSE NoKey)
           : r \in create_hkey(w, self.handle, path.val, sec) }

RegKey_delete(w, self, inp, is_recursive) ==
    LET path == try_into(inp) IN
    IF ~path.ok THEN {Result(w, <<>>, InvalidNul(path.pos), NoKey)}
    ELSE { Result(r.w, <<r.call>>, r.err, NoKey)
           : r \in delete_hkey(w, self.handle, path.val, is_recursive) }

\* A delete_self that drops self before it asks for the deletion.
RegKey_delete_self_drop_first(w, self, is_recursive) ==
    UNION { { Result(r.w, d.calls \o <<r.call>>, r.err, NoKey)
              : r \in delete_hkey(d.w, self.handle, <<>>, is_recursive) }
            : d \in drop(w, self) }

\* self is taken by value: it is dropped when delete_self returns, whatever
\* delete_hkey answered.
RegKey_delete_self(w, self, is_recursive) ==
    UNION { { Result(d.w, <<r.call>> \o d.calls, r.err, NoKey) : d \in drop(r.w, self) }
            : r \in delete_hkey(w, self.handle, <<>>, is_recursive) }

RegKey_open_current_user(w, sec) ==
    { Result(o.w, <<o.call>>,
             IF o.status = 0 THEN NoError
             ELSE IF io_error_kind(o.status) = "NotFound"
               THEN Err("NotFound", LIT_CURRENT_USER_ERR, o.status)
             ELSE IF io_error_kind(o.status) = "PermissionDenied"
               THEN Err("PermissionDenied", LIT_CURRENT_USER_ERR, o.status)
             ELSE Err("Unknown", LIT_CURRENT_USER_ERR, o.status),
             IF o.status = 0 THEN RegKey(o.handle, LIT_CURRENT_USER) ELSE NoKey)
      : o \in RegOpenCurrentUser(w, sec) }

\* What a caller passes as a value name.
NameInputs == { [form |-> "str", s |-> VALUE_NAME],
                [form |-> "str", s |-> VALUE_NAME \o <<NUL>>] }

value_error(status, name) ==
    IF status = 0 THEN NoError
    ELSE IF io_error_kind(status) = "NotFound" THEN Err("NotFound", error_path(name), status)
    ELSE IF io_error_kind(status) = "PermissionDenied"
      THEN Err("PermissionDenied", error_path(name), status)
    ELSE Err("Unknown", error_path(name), status)

\* value::query_value, value::set_value, value::delete_value
query_value(w, handle, inp) ==
    LET name == try_into(inp) IN
    IF ~name.ok THEN {Result(w, <<>>, InvalidNul(name.pos), NoKey)}
    ELSE { Result(o.w, <<o.call>>, value_error(o.status, name.val), NoKey)
           : o \in RegQueryValueExW(w, handle, name.val) }

set_value(w, handle, inp) ==
    LET name == try_into(inp) IN
    IF ~name.ok THEN {Result(w, <<>>, InvalidNul(name.pos), NoKey)}
    ELSE { Result(o.w, <<o.call>>, value_error(o.status, name.val), NoKey)
           : o \in RegSetValueExW(w, handle, name.val) }

delete_value(w, handle, inp) ==
    LET name == try_into(inp) IN
    IF ~name.ok THEN {Result(w, <<>>, InvalidNul(name.pos), NoKey)}
    ELSE { Result(o.w, <<o.call>>, value_error(o.status, name.val), NoKey)
           : o \in RegDeleteValueW(w, handle, name.val) }

RegKey_value(w, self, inp) == query_value(w, self.handle, inp)
RegKey_set_value(w, self, inp) == set_value(w, self.handle, inp)
RegKey_delete_value(w, self, inp) == delete_value(w, self.handle, inp)

\* iter::Keys::new(self), iter::Values::new(self): a cursor at index 0 that
\* refers to the RegKey; tied when the reference is a borrow of the RegKey.
Iter(kind, k, tied) ==
    [live |-> TRUE, kind |-> kind, regkey |-> k, tied |-> tied,
     index |-> 0, exhausted |-> FALSE]

\* A keys() whose iterator does not borrow the RegKey (no lifetime ties them).
RegKey_keys_unborrowed(k) == Iter("keys", k, FALSE)

\* keys(&self) -> iter::Keys<'_>, values(&self) -> iter::Values<'_>: the
\* iterator borrows self for as long as it lives.
RegKey_keys(k) == Iter("keys", k, TRUE)
RegKey_values(k) == Iter("values", k, TRUE)

\* Iterator::next of Keys and Values.  The handle is read through the
\* borrowed RegKey; 0 stands for what a dangling reference would give.
iter_next(w, keys, it) ==
    LET self == keys[it.regkey]
        h == IF self.live THEN self.handle ELSE 0
        step(a) ==
            [it |-> IF a.status = 0 THEN [it EXCEPT !.index = it.index + 1]
                    ELSE [it EXCEPT !.exhausted = TRUE],
             calls |-> <<a.call>>,
             some |-> a.status # ERROR_NO_MORE_ITEMS,
             item |-> a.name,
             err |-> IF a.status \in {0, ERROR_NO_MORE_ITEMS} THEN NoError
                     ELSE value_error(a.status, <<>>)] IN
    IF it.exhausted
      THEN {[it |-> it, calls |-> <<>>, some |-> FALSE, item |-> <<>>, err |-> NoError]}
    ELSE IF it.kind = "keys"
      THEN {step(a) : a \in RegEnumKeyExW(w, h, it.index)}
      ELSE {step(a) : a \in RegEnumValueW(w, h, it.index)}

(***************************************************************************)
(* The caller: safe Rust that holds RegKeys and calls their methods.       *)
(***************************************************************************)
FreeSlots == {s \in Slots : ~regkeys[s].live}
NewSlot == CHOOSE s \in FreeSlots : \A t \in FreeSlots : s <= t

\* A RegKey an iterator borrows can be neither dropped nor moved.
Borrowed(k) == \E i \in IterIds : iters[i].live /\ iters[i].tied /\ iters[i].regkey = k

Commit(w) == store' = w.store /\ vals' = w.vals /\ hkeys' = w.hkeys

Returned(op, k, inp, sec, rec, r) ==
    [op |-> op, key |-> k, arg |-> inp, sec |-> sec, rec |-> rec, err |-> r.err,
     out |-> IF r.key.live THEN NewSlot ELSE 0, some |-> FALSE, item |-> <<>>]

Bind(r) == IF r.key.live THEN [regkeys EXCEPT ![NewSlot] = r.key] ELSE regkeys

\* No call has returned anything the caller still holds.
NoRet == [op |-> "none", key |-> 0, arg |-> NoArg, sec |-> {}, rec |-> FALSE,
          err |-> NoError, out |-> 0, some |-> FALSE, item |-> <<>>]
Idle == ret = NoRet

Init ==
    /\ store = {HiveRoot}
    /\ vals = {}
    /\ hkeys = [h \in Handles |-> ClosedHandle]
    /\ regkeys = [s \in Slots |-> NoKey]
    /\ iters = [i \in IterIds |-> NoIter]
    /\ ret = NoRet
    /\ calls = <<>>

OpenCurrentUser(sec) ==
    /\ Idle
    /\ FreeSlots # {}
    /\ \E r \in RegKey_open_current_user(World, sec) :
         /\ Commit(r.w)
         /\ regkeys' = Bind(r)
         /\ ret' = Returned("open_current_user", 0, NoArg, sec, FALSE, r)
         /\ calls' = r.calls
    /\ UNCHANGED iters

Open(k, inp, sec) ==
    /\ Idle
    /\ regkeys[k].live
    /\ FreeSlots # {}
    /\ \E r \in RegKey_open(World, regkeys[k], inp, sec) :
         /\ Commit(r.w)
         /\ regkeys' = Bind(r)
         /\ ret' = Returned("open", k, inp, sec, FALSE, r)
         /\ calls' = r.calls
    /\ UNCHANGED iters

Create(k, inp, sec) ==
    /\ Idle
    /\ regkeys[k].live
    /\ FreeSlots # {}
    /\ \E r \in RegKey_create(World, regkeys[k], inp, sec) :
         /\ Commit(r.w)
         /\ regkeys' = Bind(r)
         /\ ret' = Returned("create", k, inp, sec, FALSE, r)
         /\ calls' = r.calls
    /\ UNCHANGED iters

Delete(k, inp, is_recursive) ==
    /\ Idle
    /\ regkeys[k].live
    /\ \E r \in RegKey_delete(World, regkeys[k], inp, is_recursive) :
         /\ Commit(r.w)
         /\ ret' = Returned("delete", k, inp, {}, is_recursive, r)
         /\ calls' = r.calls
    /\ UNCHANGED <<regkeys, iters>>

DeleteSelf(k, is_recursive) ==
    /\ Idle
    /\ regkeys[k].live
    /\ ~Borrowed(k)
    /\ \E r \in RegKey_delete_self(World, regkeys[k], is_recursive) :
         /\ Commit(r.w)
         /\ ret' = Returned("delete_self", k, NoArg, {}, is_recursive, r)
         /\ calls' = r.calls
    /\ regkeys' = [regkeys EXCEPT ![k] = NoKey]
    /\ UNCHANGED iters

\* A RegKey goes out of scope.
Drop(k) ==
    /\ Idle
    /\ regkeys[k].live
    /\ ~Borrowed(k)
    /\ \E d \in drop(World, regkeys[k]) :
         /\ Commit(d.w)
         /\ calls' = d.calls
    /\ regkeys' = [regkeys EXCEPT ![k] = NoKey]
    /\ ret' = [NoRet EXCEPT !.op = "drop", !.key = k]
    /\ UNCHANGED iters

Value(k, inp) ==
    /\ Idle
    /\ regkeys[k].live
    /\ \E r \in RegKey_value(World, regkeys[k], inp) :
         /\ Commit(r.w)
         /\ ret' = Returned("value", k, inp, {}, FALSE, r)
         /\ calls' = r.calls
    /\ UNCHANGED <<regkeys, iters>>

SetValue(k, inp) ==
    /\ Idle
    /\ regkeys[k].live
    /\ \E r \in RegKey_set_value(World, regkeys[k], inp) :
         /\ Commit(r.w)
         /\ ret' = Returned("set_value", k, inp, {}, FALSE, r)
         /\ calls' = r.calls
    /\ UNCHANGED <<regkeys, iters>>

DeleteValue(k, inp) ==
    /\ Idle
    /\ regkeys[k].live
    /\ \E r \in RegKey_delete_value(World, regkeys[k], inp) :
         /\ Commit(r.w)
         /\ ret' = Returned("delete_value", k, inp, {}, FALSE, r)
         /\ calls' = r.calls
    /\ UNCHANGED <<regkeys, iters>>

Keys(k, i) ==
    /\ Idle
    /\ regkeys[k].live
    /\ ~iters[i].live
    /\ iters' = [iters EXCEPT ![i] = RegKey_keys(k)]
    /\ ret' = [NoRet EXCEPT !.op = "keys", !.key = k]
    /\ calls' = <<>>
    /\ UNCHANGED <<store, vals, hkeys, regkeys>>

Values(k, i) ==
    /\ Idle
    /\ regkeys[k].live
    /\ ~iters[i].live
    /\ iters' = [iters EXCEPT ![i] = RegKey_values(k)]
    /\ ret' = [NoRet EXCEPT !.op = "values", !.key = k]
    /\ calls' = <<>>
    /\ UNCHANGED <<store, vals, hkeys, regkeys>>

IterNext(i) ==
    /\ Idle
    /\ iters[i].live
    /\ \E r \in iter_next(World, regkeys, iters[i]) :
         /\ iters' = [iters EXCEPT ![i] = r.it]
         /\ ret' = [NoRet EXCEPT !.op = "next", !.key = iters[i].regkey,
                                 !.err = r.err, !.some = r.some, !.item = r.item]
         /\ calls' = r.calls
    /\ UNCHANGED <<store, vals, hkeys, regkeys>>

\* An iterator goes out of scope: the borrow of its RegKey ends.
IterDrop(i) ==
    /\ Idle
    /\ iters[i].live
    /\ iters' = [iters EXCEPT ![i] = NoIter]
    /\ ret' = [NoRet EXCEPT !.op = "iter_drop"]
    /\ calls' = <<>>
    /\ UNCHANGED <<store, vals, hkeys, regkeys>>

\* The caller is done with what the last call returned: the temporary Result
\* goes out of scope before the next statement runs.
Consume ==
    /\ ~Idle
    /\ ret' = NoRet
    /\ calls' = <<>>
    /\ UNCHANGED <<store, vals, hkeys, regkeys, iters>>

Next ==
    \/ Consume
    \/ \E sec \in SecValues : OpenCurrentUser(sec)
    \/ \E k \in Slots, inp \in Inputs, sec \in SecValues : Open(k, inp, sec)
    \/ \E k \in Slots, inp \in Inputs, sec \in SecValues : Create(k, inp, sec)
    \/ \E k \in Slots, inp \in Inputs, rec \in BOOLEAN : Delete(k, inp, rec)
    \/ \E k \in Slots, rec \in BOOLEAN : DeleteSelf(k, rec)
    \/ \E k \in Slots : Drop(k)

Spec == Init /\ [][Next]_vars

\* The paths of the specification that has the iterators and the values too.
FullInputs ==
    { [form |-> "str", s |-> <<LETTER_A>>],
      [form |-> "str", s |-> <<LETTER_A, NUL, LETTER_A>>] }

NextFull ==
    \/ Consume
    \/ \E sec \in SecValues : OpenCurrentUser(sec)
    \/ \E k \in Slots, inp \in FullInputs, sec \in SecValues : Open(k, inp, sec)
    \/ \E k \in Slots, inp \in FullInputs, sec \in SecValues : Create(k, inp, sec)
    \/ \E k \in Slots, inp \in FullInputs, rec \in BOOLEAN : Delete(k, inp, rec)
    \/ \E k \in Slots, rec \in BOOLEAN : DeleteSelf(k, rec)
    \/ \E k \in Slots : Drop(k)
    \/ \E k \in Slots, inp \in NameInputs : Value(k, inp)
    \/ \E k \in Slots, inp \in NameInputs : SetValue(k, inp)
    \/ \E k \in Slots, inp \in NameInputs : DeleteValue(k, inp)
    \/ \E k \in Slots, i \in IterIds : Keys(k, i)
    \/ \E k \in Slots, i \in IterIds : Values(k, i)
    \/ \E i \in IterIds : IterNext(i)
    \/ \E i \in IterIds : IterDrop(i)

SpecFull == Init /\ [][NextFull]_vars

(***************************************************************************)
(* The claims.                                                             *)
(***************************************************************************)
OpenHandles == {h \in Handles : hkeys[h].open}
LiveKeys == {k \in Slots : regkeys[k].live}
OwnedHandles == {regkeys[k].handle : k \in LiveKeys}
Acquiring == {"open", "create", "open_current_user"}
PathOps == {"open", "create", "delete"}
StoreOps == {"open", "create", "delete", "delete_self", "open_current_user"}
Failed == ret.err.kind # "Ok"

\* C1: across every step, the handles closed are exactly the handles of the
\* RegKeys destroyed by the step, each closed once and while still open; the
\* handles open afterwards are exactly those of the RegKeys alive; and an
\* acquisition that fails constructs no RegKey and closes nothing.
C1_Step ==
    LET closes == {i \in DOMAIN calls' : calls'[i].prim = "RegCloseKey"}
        gone == {k \in Slots : regkeys[k].live /\ ~regkeys'[k].live} IN
    /\ Cardinality(closes) = Cardinality(gone)
    /\ \A i \in closes : /\ calls'[i].valid
                         /\ \E k \in gone : calls'[i].handle = regkeys[k].handle
    /\ \A k \in gone : ~hkeys'[regkeys[k].handle].open
    /\ OpenHandles' = OwnedHandles'
    /\ (ret'.op \in Acquiring /\ ret'.err.kind # "Ok") =>
           (regkeys' = regkeys /\ hkeys' = hkeys)
    /\ (ret'.op \in Acquiring /\ ret'.err.kind = "Ok") =>
           (/\ regkeys'[ret'.out].live
            /\ ~regkeys[ret'.out].live
            /\ regkeys'[ret'.out].handle \notin OpenHandles)
C1_ClosedExactlyOnce == [][C1_Step]_vars

\* A delete_self whose delete request failed has closed the handle, while
\* another RegKey is still alive with its handle open.
C1_Witness ==
    /\ ret.op = "delete_self"
    /\ Failed
    /\ Len(calls) = 2 /\ calls[2].prim = "RegCloseKey" /\ calls[2].valid
    /\ LiveKeys # {}

\* C2: every open native handle is held by exactly one live RegKey, and every
\* live RegKey holds an open handle.
C2_OneOwner ==
    /\ \A h \in OpenHandles :
           Cardinality({k \in LiveKeys : regkeys[k].handle = h}) = 1
    /\ \A k \in LiveKeys : regkeys[k].handle \in OpenHandles

\* Two RegKeys opened on the same key, each with a native handle of its own.
C2_Witness ==
    \E k1, k2 \in LiveKeys :
        /\ k1 # k2
        /\ regkeys[k1].handle # regkeys[k2].handle
        /\ ~hkeys[regkeys[k1].handle].deleted
        /\ ~hkeys[regkeys[k2].handle].deleted
        /\ hkeys[regkeys[k1].handle].node = hkeys[regkeys[k2].handle].node

\* C3: delete_self, recursive or not and whatever the store answers, issues
\* the delete request on its still-open handle, then closes that handle once,
\* and leaves the caller without the RegKey.
C3_Step ==
    ret'.op = "delete_self" =>
        LET self == regkeys[ret'.key] IN
        /\ self.live
        /\ Len(calls') = 2
        /\ calls'[1].prim = (IF ret'.rec THEN "RegDeleteTreeW" ELSE "RegDeleteKeyW")
        /\ calls'[1].handle = self.handle
        /\ calls'[1].valid
        /\ (calls'[1].status = 0) = (ret'.err.kind = "Ok")
        /\ calls'[2].prim = "RegCloseKey"
        /\ calls'[2].handle = self.handle
        /\ calls'[2].valid
        /\ ~hkeys'[self.handle].open
        /\ ~regkeys'[ret'.key].live
C3_DeleteSelfConsumes == [][C3_Step]_vars

\* A recursive delete_self that the store refused.
C3_Witness ==
    /\ ret.op = "delete_self"
    /\ ret.rec
    /\ Failed
    /\ ~regkeys[ret.key].live

\* C4: the status the store answered decides the result the same way for
\* open, create, delete, delete_self and open_current_user: 0 is success,
\* the not-found class NotFound, the access class PermissionDenied, anything
\* else Unknown with the status in it.
NotFoundClass == {ERROR_FILE_NOT_FOUND, ERROR_PATH_NOT_FOUND}
AccessClass == {ERROR_ACCESS_DENIED}
KindOf(status) ==
    IF status = 0 THEN "Ok"
    ELSE IF status \in NotFoundClass THEN "NotFound"
    ELSE IF status \in AccessClass THEN "PermissionDenied"
    ELSE "Unknown"
C4_UniformMapping ==
    (ret.op \in StoreOps /\ calls # <<>>) =>
        /\ ret.err.kind = KindOf(calls[1].status)
        /\ ret.err.code = calls[1].status

\* create refused for want of access: the same status that delete and
\* delete_self get for a key that cannot be deleted.
C4_Witness ==
    /\ ret.op = "create"
    /\ calls # <<>>
    /\ calls[1].status = ERROR_ACCESS_DENIED
    /\ ret.err.kind = "PermissionDenied"

\* C5: open, create or delete of a path with a NUL in it returns InvalidNul
\* without calling the store: keys, values, handles and RegKeys are as before.
HasNul(inp) == \E i \in 1..Len(inp.s) : inp.s[i] = NUL
C5_Step ==
    (ret'.op \in PathOps /\ HasNul(ret'.arg)) =>
        /\ ret'.err.kind = "InvalidNul"
        /\ calls' = <<>>
        /\ UNCHANGED <<store, vals, hkeys, regkeys, iters>>
C5_NulBeforeStore == [][C5_Step]_vars

\* A create of "a<NUL>a" was refused.
C5_Witness ==
    /\ ret.op = "create"
    /\ ret.arg.s = <<LETTER_A, NUL, LETTER_A>>
    /\ ret.err.kind = "InvalidNul"
    /\ calls = <<>>

\* The code units of the path a caller passed, and the key it names under
\* the key of handle base.
Units(inp) == IF inp.form = "str" THEN encode_utf16(inp.s) ELSE inp.s
Named(base, inp) == hkeys[base].node \o Split(Units(inp))
Usable(base) == base \in Handles /\ hkeys[base].open /\ ~hkeys[base].deleted
\* A path the store takes: no NUL, no empty key name.
Parses(inp) == ~HasNul(inp) /\ ~Malformed(Units(inp))
\* A valid path is, besides, well-formed UTF-16.
ValidPath(inp) == Parses(inp) /\ WellFormed(Units(inp))
\* The RegKey renders exactly the path the caller passed.
Renders(key, inp) ==
    IF inp.form = "str" THEN Display(key) = inp.s
    ELSE encode_utf16(Display(key)) = inp.s

\* C6: create of a valid path under a usable handle with write access
\* succeeds and leaves the key in the store; open of a valid path whose key
\* is in the store succeeds, and the RegKey it returns is a handle to that
\* key and renders exactly the path; and only delete and delete_self take a
\* key out of the store.
C6_Step ==
    LET base == regkeys[ret'.key].handle
        new == regkeys'[ret'.out] IN
    /\ (/\ ret'.op = "create"
        /\ ValidPath(ret'.arg)
        /\ Usable(base)
        /\ "Write" \in hkeys[base].sam) =>
           /\ ret'.err.kind = "Ok"
           /\ Named(base, ret'.arg) \in store'
           /\ hkeys'[new.handle].node = Named(base, ret'.arg)
           /\ Renders(new, ret'.arg)
    /\ (/\ ret'.op = "open"
        /\ ValidPath(ret'.arg)
        /\ Usable(base)
        /\ Named(base, ret'.arg) \in store) =>
           /\ ret'.err.kind = "Ok"
           /\ hkeys'[new.handle].node = Named(base, ret'.arg)
           /\ ~hkeys'[new.handle].deleted
           /\ Renders(new, ret'.arg)
    /\ (store \ store' # {}) => ret'.op \in {"delete", "delete_self"}
C6_CreateThenOpen == [][C6_Step]_vars

\* An open of the path U+10000, which takes a surrogate pair, returned a
\* RegKey that renders U+10000.
C6_Witness ==
    /\ ret.op = "open"
    /\ ret.err.kind = "Ok"
    /\ ret.arg = [form |-> "str", s |-> <<BMP_LIMIT>>]
    /\ regkeys[ret.out].path = <<SUR_HIGH_MIN, SUR_LOW_MIN>>
    /\ Display(regkeys[ret.out]) = <<BMP_LIMIT>>

\* C7: a non-recursive delete of a key that is in the store (and is not the
\* hive root, which no one may delete) fails with an error that is neither
\* success nor NotFound and changes nothing when the key has a subkey; it
\* succeeds and removes just that key when it has none.
C7_Step ==
    LET base == regkeys[ret'.key].handle
        t == Named(base, ret'.arg) IN
    (/\ ret'.op = "delete"
     /\ ~ret'.rec
     /\ Parses(ret'.arg)
     /\ Usable(base)
     /\ t \in store
     /\ t # HiveRoot) =>
        IF Children(store, t) # {}
          THEN /\ ret'.err.kind \in {"PermissionDenied", "Unknown"}
               /\ store' = store
               /\ vals' = vals
          ELSE /\ ret'.err.kind = "Ok"
               /\ store' = store \ {t}
C8_OriginalStep ==
    LET base == regkeys[ret'.key].handle IN
    (/\ ret'.op = "delete"
     /\ ret'.rec
     /\ Parses(ret'.arg)
     /\ Usable(base)
     /\ Named(base, ret'.arg) \in store) =>
        /\ ret'.err.kind = "Ok"
        /\ Len(calls') = 1
        /\ calls'[1].prim = "RegDeleteTreeW"
        /\ \A sec \in SecValues :
             \A r \in RegKey_open(World', regkeys'[ret'.key], ret'.arg, sec) :
                 r.err.kind = "NotFound"
C8_Step ==
    LET base == regkeys[ret'.key].handle
        t == Named(base, ret'.arg) IN
    /\ (/\ ret'.op = "delete"
        /\ ret'.rec
        /\ Parses(ret'.arg)
        /\ Units(ret'.arg) # <<>>
        /\ Usable(base)
        /\ t \in store) =>
           /\ ret'.err.kind = "Ok"
           /\ Len(calls') = 1
           /\ calls'[1].prim = "RegDeleteTreeW"
           /\ store' = store \ Subtree(store, t)
           /\ \A sec \in SecValues :
                \A r \in RegKey_open(World', regkeys'[ret'.key], ret'.arg, sec) :
                    r.err.kind = "NotFound"
    /\ (/\ ret'.op = "open"
        /\ Parses(ret'.arg)
        /\ Usable(base)
        /\ t \notin store) =>
           /\ ret'.err.kind = "NotFound"
           /\ regkeys' = regkeys
    /\ (store' \ store # {}) => ret'.op = "create"
Attempted(op, inp) ==
    IF op = "open_current_user" THEN LIT_CURRENT_USER_ERR
    ELSE IF op = "delete_self" THEN <<>>
    ELSE IF WellFormed(Units(inp)) THEN to_string_lossy(Units(inp))
    ELSE LIT_UNKNOWN
C9_Step ==
    LET requests == {i \in DOMAIN calls' : calls'[i].prim # "RegCloseKey"} IN
    ret'.op \in StoreOps =>
        /\ Cardinality(requests) <= 1
        /\ (\E i \in requests : calls'[i].status # 0) => ret'.err.kind # "Ok"
        /\ ret'.err.kind # "Ok" =>
             /\ ret'.err.kind \in {"NotFound", "PermissionDenied", "InvalidNul", "Unknown"}
             /\ ret'.err.kind = "InvalidNul" => (HasNul(ret'.arg) /\ requests = {})
             /\ ret'.err.kind # "InvalidNul" =>
                  /\ requests # {}
                  /\ ret'.err.code = calls'[1].status
                  /\ ret'.err.code # 0
                  /\ ret'.err.path = Attempted(ret'.op, ret'.arg)
EnumCalls == {"RegEnumKeyExW", "RegEnumValueW"}
C10_Step ==
    /\ \A i \in IterIds :
         iters'[i].live =>
             /\ regkeys'[iters'[i].regkey].live
             /\ hkeys'[regkeys'[iters'[i].regkey].handle].open
    /\ \A c \in DOMAIN calls' : calls'[c].prim \in EnumCalls => calls'[c].valid
    /\ ret'.op \in {"keys", "values", "next"} =>
             UNCHANGED <<regkeys, hkeys, store, vals>>
    /\ ret'.op = "next" =>
             \A i \in IterIds :
                 /\ iters'[i].live = iters[i].live
                 /\ iters'[i].regkey = iters[i].regkey
                 /\ iters[i].exhausted => iters'[i] = iters[i]
C10_IteratorBorrows == [][C10_Step]_vars

\* An iterator has yielded a key name read through its RegKey's handle.
C10_Witness ==
    /\ ret.op = "next"
    /\ ret.some
    /\ ret.err.kind = "Ok"
    /\ \E i \in IterIds : /\ iters[i].live
                          /\ iters[i].kind = "keys"
                          /\ iters[i].index >= 1
                          /\ regkeys[iters[i].regkey].live

====
